---- MODULE Spec2Model ----
(***************************************************************************)
(* Model of the IDCTS portal component (src/src/App.jsx): the React state  *)
(* of IDCTSPortal, its event handlers (handleFileUpload, analyzeHarFile,   *)
(* removeFile, analyzeUrl, resetAnalysis), the timers and the two remote   *)
(* calls they start.  Every handler runs to its next await as one step;    *)
(* each await on the network or on a timer is a separate step.            *)
(***************************************************************************)
EXTENDS Integers, Sequences, FiniteSets, TLC

\* ------------------------------------------------------------ bounds
\* most files tracked at once, and most files picked in one upload
MaxFiles == 2

\* ------------------------------------------------------------ values
\* a nullable JavaScript value: null, or the value held
None == <<>>
Some(x) == <<x>>
Val(o) == o[1]


RECURSIVE SeqsUpTo(_, _)
SeqsUpTo(S, n) ==
    IF n = 0 THEN {<<>>}
    ELSE LET shorter == SeqsUpTo(S, n - 1)
         IN  shorter \cup {Append(s, c) : s \in {t \in shorter : Len(t) = n - 1}, c \in S}

\* the texts typed into the URL field: empty, whitespace only, and a URL with
\* whitespace around it
Urls == {<<>>, <<" ">>, <<" ", "u", " ">>}

\* String.prototype.trim: whitespace stripped from both ends
RECURSIVE TrimLeft(_)
TrimLeft(s) == IF s # <<>> /\ Head(s) = " " THEN TrimLeft(Tail(s)) ELSE s

RECURSIVE TrimRight(_)
TrimRight(s) ==
    IF s # <<>> /\ s[Len(s)] = " " THEN TrimRight(SubSeq(s, 1, Len(s) - 1)) ELSE s

\* no trimming at all
TrimNone(s) == s

Trim(s) == TrimRight(TrimLeft(s))

\* String.prototype.endsWith / startsWith on character sequences
EndsWith(s, suf) ==
    /\ Len(s) >= Len(suf)
    /\ SubSeq(s, Len(s) - Len(suf) + 1, Len(s)) = suf

StartsWith(s, pre) ==
    /\ Len(s) >= Len(pre)
    /\ SubSeq(s, 1, Len(pre)) = pre

HarSuffix == <<".", "h", "a", "r">>
ImagePrefix == <<"i", "m", "a", "g", "e", "/">>

\* The File objects the user can pick: two traffic logs, an image, a text file.
FilePool ==
    <<[name |-> <<"a">> \o HarSuffix, type |-> <<>>],
      [name |-> <<"b">> \o HarSuffix, type |-> <<>>],
      [name |-> <<"c", ".", "p", "n", "g">>, type |-> ImagePrefix \o <<"p", "n", "g">>],
      [name |-> <<"d", ".", "t", "x", "t">>, type |-> <<"t", "e", "x", "t">>]>>

FileIds == DOMAIN FilePool

IsHar(f) == EndsWith(FilePool[f].name, HarSuffix)

\* a filter that lets every file through
IsValidFile_AnyFile(f) == TRUE

\* the filter of handleFileUpload
IsValidFile(f) == IsHar(f) \/ StartsWith(FilePool[f].type, ImagePrefix)

\* checkpoints whose last one reports completion
progressSteps_To100 ==
    <<[pct |-> 10, text |-> "step1"],
      [pct |-> 25, text |-> "step2"],
      [pct |-> 40, text |-> "step3"],
      [pct |-> 55, text |-> "step4"],
      [pct |-> 70, text |-> "step5"],
      [pct |-> 85, text |-> "step6"],
      [pct |-> 100, text |-> "step7"]>>

\* checkpoints of which one lies below its predecessor
progressSteps_Unordered ==
    <<[pct |-> 10, text |-> "step1"],
      [pct |-> 40, text |-> "step2"],
      [pct |-> 25, text |-> "step3"],
      [pct |-> 55, text |-> "step4"],
      [pct |-> 70, text |-> "step5"],
      [pct |-> 85, text |-> "step6"],
      [pct |-> 95, text |-> "step7"]>>

\* the advisory checkpoints
progressSteps ==
    <<[pct |-> 10, text |-> "step1"],
      [pct |-> 25, text |-> "step2"],
      [pct |-> 40, text |-> "step3"],
      [pct |-> 55, text |-> "step4"],
      [pct |-> 70, text |-> "step5"],
      [pct |-> 85, text |-> "step6"],
      [pct |-> 95, text |-> "step7"]>>

HarLabel == "har-analysing"
DoneLabel == "done"
ValidationMsg == "enter-url"
HttpErrorMsg == "analysis-error"
FallbackMsg == "connect-failed"
\* err.message of a rejected fetch / json(): absent or given by the runtime
RejectMessages == {"", "Failed to fetch"}

\* a message shown as the runtime gave it, with no fallback
OrElse_NoFallback(a, b) == a

\* a || b on strings: the empty string is falsy
OrElse(a, b) == IF a = "" THEN b ELSE a

VARIABLES
    \* the useState cells of IDCTSPortal
    url, isAnalyzing, result, error, progress, progressText,
    uploadedFiles, harAnalysis,
    \* the analyzeUrl invocation in flight: where it waits, the interval's
    \* stepIndex, whether the interval is set, the harAnalysis and url.trim()
    \* its closure holds, the data its timeout will publish
    runPc, stepIndex, intervalActive, closureHar, reqUrl, pendingData,
    \* the handleFileUpload invocations in flight: the file whose call is
    \* pending and the har files still to come
    uploads,
    \* history: files removed while their call was pending; files
    \* removed, while a run was in flight, when harAnalysis held their analysis;
    \* files whose call was pending when resetAnalysis ran
    removedPending, removedAnalysed, resetPending,
    \* history: a har file was accepted since the page was constructed or last reset
    sessionHar,
    \* the merge statement of analyzeUrl applied to given inputs: the object
    \* data, what it was when handed in and after the first merge, the file
    \* analysis, and how often the statement has run
    mergeRun

vars == <<url, isAnalyzing, result, error, progress, progressText,
          uploadedFiles, harAnalysis,
          runPc, stepIndex, intervalActive, closureHar, reqUrl, pendingData,
          uploads, removedPending, removedAnalysed, resetPending, sessionHar,
          mergeRun>>

state == <<url, isAnalyzing, result, error, progress, progressText,
           uploadedFiles, harAnalysis>>
run == <<runPc, stepIndex, intervalActive, closureHar, reqUrl, pendingData>>
ghost == <<removedPending, removedAnalysed, resetPending, sessionHar>>

\* the merge statement not under study
MergeOff == [pc |-> "off"]

\* the page after construction
InitPage ==
    /\ url = <<>>
    /\ isAnalyzing = FALSE
    /\ result = None
    /\ error = None
    /\ progress = 0
    /\ progressText = ""
    /\ uploadedFiles = <<>>
    /\ harAnalysis = None
    /\ runPc = "none"
    /\ stepIndex = 0
    /\ intervalActive = FALSE
    /\ closureHar = None
    /\ reqUrl = None
    /\ pendingData = None
    /\ uploads = {}
    /\ removedPending = {}
    /\ removedAnalysed = {}
    /\ resetPending = {}
    /\ sessionHar = FALSE

Init == InitPage /\ mergeRun = MergeOff


\* ------------------------------------------------------------ views
\* which branch of the page is rendered: the input view or the results view
InputView == result = None

\* the workflow phase the page shows
Phase ==
    IF isAnalyzing THEN "Running"
    ELSE IF result # None THEN "Succeeded"
    ELSE IF error # None THEN "Failed"
    ELSE "Idle"

\* the file analysis the results view shows for a record:
\* result.har_analysis || harAnalysis
harOf(data) == IF data.har_analysis # None THEN data.har_analysis ELSE harAnalysis

\* const har, for the published record
har == harOf(Val(result))

\* ------------------------------------------------------------ files
\* ids of the files with an analysis call pending or queued
InFlight == UNION {{t.cur} \cup {t.rest[i] : i \in DOMAIN t.rest} : t \in uploads}

\* ids of the files whose analysis call is pending
Pending == {t.cur : t \in uploads}

Tracked == {uploadedFiles[i] : i \in DOMAIN uploadedFiles}

\* the FileList of one change event: distinct File objects, in pick order
FileLists ==
    {fs \in SeqsUpTo(FileIds, MaxFiles) :
        /\ fs # <<>>
        /\ \A i, j \in DOMAIN fs : i # j => fs[i] # fs[j]}

\* the file lists the user can pick from the File objects not in use (a File
\* object is picked again only once it is neither tracked nor awaited)
Picks(avail) == {fs \in FileLists : \A i \in DOMAIN fs : fs[i] \in avail}

\* the payload the service returns for a traffic-log file
Analysis(f) == f

\* analyzeHarFile up to its await: the label is set and the call is issued
analyzeHarFile_begin(f) == progressText' = HarLabel

\* handleFileUpload: filter (SelectSeq is Array.prototype.filter), append, then the har files one after the other
handleFileUpload(fs) ==
    LET validFiles == SelectSeq(fs, IsValidFile)
        hars == SelectSeq(validFiles, IsHar)
    IN  /\ InputView
        /\ Len(uploadedFiles) + Len(validFiles) <= MaxFiles
        /\ uploadedFiles' = uploadedFiles \o validFiles
        /\ IF hars # <<>>
           THEN /\ analyzeHarFile_begin(Head(hars))
                /\ uploads' = uploads \cup {[cur |-> Head(hars), rest |-> Tail(hars)]}
           ELSE UNCHANGED <<progressText, uploads>>
        /\ UNCHANGED <<removedPending, resetPending, mergeRun>>
        /\ sessionHar' = (sessionHar \/ hars # <<>>)
        /\ removedAnalysed' = removedAnalysed \ {fs[i] : i \in DOMAIN fs}
        /\ UNCHANGED <<url, isAnalyzing, result, error, progress, harAnalysis>>
        /\ UNCHANGED run

\* the "analysed" mark of the i-th file in the list of the input view
ShownAnalysed(i) == InputView /\ IsHar(uploadedFiles[i]) /\ harAnalysis # None

Accept == \E fs \in Picks(FileIds \ (Tracked \cup InFlight)) : handleFileUpload(fs)

\* an analyzeHarFile that stores a payload whether or not the call succeeded
analyzeHarFile_end_StoreAlways(f, ok) ==
    harAnalysis' = Some(Analysis(f))

\* analyzeHarFile after its await: the payload is stored, a failure is swallowed
analyzeHarFile_end(f, ok) ==
    harAnalysis' = IF ok THEN Some(Analysis(f)) ELSE harAnalysis

\* the pending call of upload t completes; the loop goes on to the next har file
HarDone(t, ok) ==
    /\ t \in uploads
    /\ analyzeHarFile_end(t.cur, ok)
    /\ IF t.rest # <<>>
       THEN /\ analyzeHarFile_begin(Head(t.rest))
            /\ uploads' = (uploads \ {t}) \cup {[cur |-> Head(t.rest), rest |-> Tail(t.rest)]}
       ELSE /\ uploads' = uploads \ {t}
            /\ UNCHANGED progressText
    /\ removedPending' = removedPending \ {t.cur}
    /\ resetPending' = resetPending \ {t.cur}
    /\ UNCHANGED <<url, isAnalyzing, result, error, progress, uploadedFiles>>
    /\ UNCHANGED run
    /\ UNCHANGED <<removedAnalysed, sessionHar, mergeRun>>

HarResolved == \E t \in uploads : HarDone(t, TRUE)
HarFailed == \E t \in uploads : HarDone(t, FALSE)

\* removeFile
removeFile(index) ==
    LET f == uploadedFiles[index]
    IN  /\ InputView
        /\ index \in DOMAIN uploadedFiles
        /\ uploadedFiles' = SubSeq(uploadedFiles, 1, index - 1)
                              \o SubSeq(uploadedFiles, index + 1, Len(uploadedFiles))
        /\ harAnalysis' = IF IsHar(f) THEN None ELSE harAnalysis
        /\ removedPending' = IF f \in Pending THEN removedPending \cup {f} ELSE removedPending
        /\ removedAnalysed' =
              IF IsHar(f) /\ harAnalysis = Some(Analysis(f)) /\ runPc # "none"
              THEN removedAnalysed \cup {f} ELSE removedAnalysed
        /\ UNCHANGED <<url, isAnalyzing, result, error, progress, progressText, uploads>>
        /\ UNCHANGED run
        /\ UNCHANGED <<resetPending, sessionHar, mergeRun>>

Remove == \E index \in DOMAIN uploadedFiles : removeFile(index)


\* ------------------------------------------------------------ primary run
\* the URL field: editable unless a run is in progress
SetUrl(u) ==
    /\ InputView
    /\ ~isAnalyzing
    /\ u # url
    /\ url' = u
    /\ UNCHANGED <<isAnalyzing, result, error, progress, progressText,
                   uploadedFiles, harAnalysis, uploads>>
    /\ UNCHANGED run
    /\ UNCHANGED ghost
    /\ UNCHANGED mergeRun

TypeUrl == \E u \in Urls : SetUrl(u)

\* analyzeUrl, the empty-URL return
ValidationFail ==
    /\ error' = Some(ValidationMsg)
    /\ UNCHANGED <<url, isAnalyzing, result, progress, progressText,
                   uploadedFiles, harAnalysis, uploads>>
    /\ UNCHANGED run
    /\ UNCHANGED ghost
    /\ UNCHANGED mergeRun

\* StartRun without setError(null)
StartRun_KeepError ==
    /\ isAnalyzing' = TRUE
    /\ result' = None
    /\ progress' = 0
    /\ stepIndex' = 0
    /\ intervalActive' = TRUE
    /\ reqUrl' = Some(Trim(url))
    /\ closureHar' = harAnalysis
    /\ runPc' = "fetch"
    /\ UNCHANGED <<url, error, progressText, uploadedFiles, harAnalysis, uploads, pendingData>>
    /\ UNCHANGED ghost
    /\ UNCHANGED mergeRun

\* StartRun without setIsAnalyzing(true)
StartRun_NotAnalyzing ==
    /\ error' = None
    /\ result' = None
    /\ progress' = 0
    /\ stepIndex' = 0
    /\ intervalActive' = TRUE
    /\ reqUrl' = Some(Trim(url))
    /\ closureHar' = harAnalysis
    /\ runPc' = "fetch"
    /\ UNCHANGED <<url, isAnalyzing, progressText, uploadedFiles, harAnalysis, uploads,
                   pendingData>>
    /\ UNCHANGED ghost
    /\ UNCHANGED mergeRun

\* a start that leaves the progress of the previous run in place
StartRun_KeepProgress ==
    /\ isAnalyzing' = TRUE
    /\ error' = None
    /\ result' = None
    /\ stepIndex' = 0
    /\ intervalActive' = TRUE
    /\ reqUrl' = Some(Trim(url))
    /\ closureHar' = harAnalysis
    /\ runPc' = "fetch"
    /\ UNCHANGED <<url, progress, progressText, uploadedFiles, harAnalysis, uploads,
                   pendingData>>
    /\ UNCHANGED ghost
    /\ UNCHANGED mergeRun

\* analyzeUrl from the state resets to the issue of the primary call; the
\* continuation keeps the harAnalysis of the render that created the handler
StartRun ==
    /\ isAnalyzing' = TRUE
    /\ error' = None
    /\ result' = None
    /\ progress' = 0
    /\ stepIndex' = 0
    /\ intervalActive' = TRUE
    /\ reqUrl' = Some(Trim(url))
    /\ closureHar' = harAnalysis
    /\ runPc' = "fetch"
    /\ UNCHANGED <<url, progressText, uploadedFiles, harAnalysis, uploads, pendingData>>
    /\ UNCHANGED ghost
    /\ UNCHANGED mergeRun

\* the start button and the Enter key: part of the input view, both disabled
\* while isAnalyzing
\* a start control that stays enabled during a run
analyzeUrl_Unguarded ==
    /\ InputView
    /\ IF Trim(url) = <<>> THEN ValidationFail ELSE StartRun

\* analyzeUrl, reachable through the button and the Enter key of the URL
\* field, both rendered in the input view and both inert while isAnalyzing
analyzeUrl ==
    /\ InputView
    /\ ~isAnalyzing
    /\ IF Trim(url) = <<>> THEN ValidationFail ELSE StartRun

\* an interval that starts over from 0 once the checkpoints are used up
ProgressTick_Wrap ==
    /\ intervalActive
    /\ IF stepIndex < Len(progressSteps)
       THEN /\ progress' = progressSteps[stepIndex + 1].pct
            /\ progressText' = progressSteps[stepIndex + 1].text
            /\ stepIndex' = stepIndex + 1
       ELSE /\ progress' = 0
            /\ stepIndex' = 0
            /\ UNCHANGED progressText
    /\ UNCHANGED <<url, isAnalyzing, result, error, uploadedFiles, harAnalysis, uploads>>
    /\ UNCHANGED <<runPc, intervalActive, closureHar, reqUrl, pendingData>>
    /\ UNCHANGED ghost
    /\ UNCHANGED mergeRun

\* an interval that passes over every other checkpoint
ProgressTick_SkipOne ==
    /\ intervalActive
    /\ IF stepIndex + 1 < Len(progressSteps)
       THEN /\ progress' = progressSteps[stepIndex + 2].pct
            /\ progressText' = progressSteps[stepIndex + 2].text
            /\ stepIndex' = stepIndex + 2
       ELSE UNCHANGED <<progress, progressText, stepIndex>>
    /\ UNCHANGED <<url, isAnalyzing, result, error, uploadedFiles, harAnalysis, uploads>>
    /\ UNCHANGED <<runPc, intervalActive, closureHar, reqUrl, pendingData>>
    /\ UNCHANGED ghost
    /\ UNCHANGED mergeRun

\* one firing of progressInterval
ProgressTick ==
    /\ intervalActive
    /\ IF stepIndex < Len(progressSteps)
       THEN /\ progress' = progressSteps[stepIndex + 1].pct
            /\ progressText' = progressSteps[stepIndex + 1].text
            /\ stepIndex' = stepIndex + 1
       ELSE UNCHANGED <<progress, progressText, stepIndex>>
    /\ UNCHANGED <<url, isAnalyzing, result, error, uploadedFiles, harAnalysis, uploads>>
    /\ UNCHANGED <<runPc, intervalActive, closureHar, reqUrl, pendingData>>
    /\ UNCHANGED ghost
    /\ UNCHANGED mergeRun

\* the catch block without clearInterval
RunFailed_NoClear(message) ==
    /\ error' = Some(OrElse(message, FallbackMsg))
    /\ isAnalyzing' = FALSE
    /\ runPc' = "none"
    /\ closureHar' = None
    /\ reqUrl' = None
    /\ removedAnalysed' = {}
    /\ UNCHANGED <<url, result, progress, progressText, uploadedFiles, harAnalysis,
                   uploads, pendingData, removedPending, intervalActive, stepIndex,
                   resetPending, sessionHar, mergeRun>>

\* the catch block of analyzeUrl
RunFailed(message) ==
    /\ intervalActive' = FALSE
    /\ error' = Some(OrElse(message, FallbackMsg))
    /\ isAnalyzing' = FALSE
    /\ runPc' = "none"
    /\ stepIndex' = 0
    /\ closureHar' = None
    /\ reqUrl' = None
    /\ removedAnalysed' = {}
    /\ UNCHANGED <<url, result, progress, progressText, uploadedFiles, harAnalysis,
                   uploads, pendingData, removedPending, resetPending, sessionHar,
                   mergeRun>>

\* fetch of the primary call rejects
PrimaryRejected ==
    /\ runPc = "fetch"
    /\ \E m \in RejectMessages : RunFailed(m)

\* fetch of the primary call resolves: the interval is cleared, then the status is read
PrimaryResponded(ok) ==
    /\ runPc = "fetch"
    /\ IF ok
       THEN /\ intervalActive' = FALSE
            /\ runPc' = "json"
            /\ stepIndex' = 0
            /\ UNCHANGED <<url, isAnalyzing, result, error, progress, progressText,
                           uploadedFiles, harAnalysis, uploads>>
            /\ UNCHANGED <<closureHar, reqUrl, pendingData>>
            /\ UNCHANGED ghost
            /\ UNCHANGED mergeRun
       ELSE RunFailed(HttpErrorMsg)

PrimaryOk == PrimaryResponded(TRUE)
PrimaryHttpError == PrimaryResponded(FALSE)

\* the primary payload the service returns for a URL
PrimaryData(u) == [target_url |-> u, har_analysis |-> None]

\* data.har_analysis = harAnalysis when there is one
Merge(data, fileAnalysis) ==
    IF fileAnalysis # None THEN [data EXCEPT !.har_analysis = fileAnalysis] ELSE data

\* a success path that arms the display delay without forcing the progress
PrimaryParsed_NoForce ==
    /\ runPc = "json"
    /\ pendingData' = Some(Merge(PrimaryData(Val(reqUrl)), closureHar))
    /\ runPc' = "delay"
    /\ closureHar' = None
    /\ reqUrl' = None
    /\ UNCHANGED <<url, isAnalyzing, result, error, uploadedFiles, harAnalysis, uploads>>
    /\ UNCHANGED <<progress, progressText, stepIndex, intervalActive>>
    /\ UNCHANGED ghost
    /\ UNCHANGED mergeRun

\* response.json() resolves: merge, force 100, arm the display delay
PrimaryParsed ==
    /\ runPc = "json"
    /\ pendingData' = Some(Merge(PrimaryData(Val(reqUrl)), closureHar))
    /\ progress' = 100
    /\ progressText' = DoneLabel
    /\ runPc' = "delay"
    /\ closureHar' = None
    /\ reqUrl' = None
    /\ UNCHANGED <<url, isAnalyzing, result, error, uploadedFiles, harAnalysis, uploads>>
    /\ UNCHANGED <<stepIndex, intervalActive>>
    /\ UNCHANGED ghost
    /\ UNCHANGED mergeRun

\* response.json() rejects
PrimaryParseFailed ==
    /\ runPc = "json"
    /\ \E m \in RejectMessages : RunFailed(m)

\* the display-delay timeout fires
\* a timeout that publishes the result and leaves isAnalyzing set
Publish_StillAnalyzing ==
    /\ runPc = "delay"
    /\ result' = pendingData
    /\ runPc' = "none"
    /\ pendingData' = None
    /\ UNCHANGED <<url, isAnalyzing, error, progress, progressText, uploadedFiles,
                   harAnalysis, uploads>>
    /\ UNCHANGED <<stepIndex, intervalActive, closureHar, reqUrl>>
    /\ UNCHANGED ghost
    /\ UNCHANGED mergeRun

Publish ==
    /\ runPc = "delay"
    /\ result' = pendingData
    /\ isAnalyzing' = FALSE
    /\ runPc' = "none"
    /\ pendingData' = None
    /\ UNCHANGED <<url, error, progress, progressText, uploadedFiles, harAnalysis, uploads>>
    /\ UNCHANGED <<stepIndex, intervalActive, closureHar, reqUrl>>
    /\ UNCHANGED ghost
    /\ UNCHANGED mergeRun

\* a reset that keeps the uploaded files
resetAnalysis_KeepFiles ==
    /\ ~InputView
    /\ result' = None
    /\ url' = <<>>
    /\ progress' = 0
    /\ progressText' = ""
    /\ harAnalysis' = None
    /\ removedAnalysed' = {}
    /\ resetPending' = resetPending \cup Pending
    /\ sessionHar' = FALSE
    /\ UNCHANGED <<isAnalyzing, error, uploadedFiles, uploads, removedPending, mergeRun>>
    /\ UNCHANGED run

\* resetAnalysis, the button of the results view
resetAnalysis ==
    /\ ~InputView
    /\ result' = None
    /\ url' = <<>>
    /\ progress' = 0
    /\ progressText' = ""
    /\ uploadedFiles' = <<>>
    /\ harAnalysis' = None
    /\ removedAnalysed' = {}
    /\ resetPending' = resetPending \cup Pending
    /\ sessionHar' = FALSE
    /\ UNCHANGED <<isAnalyzing, error, uploads, removedPending, mergeRun>>
    /\ UNCHANGED run

\* ------------------------------------------------------------ specification
Next ==
    \/ TypeUrl
    \/ Accept
    \/ HarResolved
    \/ HarFailed
    \/ Remove
    \/ analyzeUrl
    \/ ProgressTick
    \/ PrimaryRejected
    \/ PrimaryOk
    \/ PrimaryHttpError
    \/ PrimaryParsed
    \/ PrimaryParseFailed
    \/ Publish
    \/ resetAnalysis

Spec == Init /\ [][Next]_vars

\* the page when the service answers or the connection fails, a body is
\* parsed or fails to parse, and an armed timeout fires
SpecLive ==
    /\ Spec
    /\ WF_vars(PrimaryRejected \/ PrimaryOk \/ PrimaryHttpError)
    /\ WF_vars(PrimaryParsed \/ PrimaryParseFailed)
    /\ WF_vars(Publish)

\* --------------------------------------------- the merge statement by itself
\* the payloads a file analysis or a service response may carry
Payloads == {None} \cup {Some(Analysis(f)) : f \in FileIds}

\* the records response.json() may hand to the merge statement
PrimaryRecords ==
    {[target_url |-> Trim(u), har_analysis |-> h] : u \in Urls, h \in Payloads}

\* the merge statement is about to run on the object data with the analysis f
InitMerge ==
    /\ InitPage
    /\ \E p \in PrimaryRecords, f \in Payloads :
           mergeRun = [pc |-> "given", data |-> p, given |-> p, once |-> p, f |-> f]

\* the statement assigns into the object it was given: the merged record and
\* data are one object
MergeInPlace ==
    /\ mergeRun.pc \in {"given", "once"}
    /\ mergeRun' = [mergeRun EXCEPT
                       !.data = Merge(mergeRun.data, mergeRun.f),
                       !.once = IF mergeRun.pc = "given"
                                THEN Merge(mergeRun.data, mergeRun.f)
                                ELSE mergeRun.once,
                       !.pc = IF mergeRun.pc = "given" THEN "once" ELSE "twice"]
    /\ UNCHANGED state
    /\ UNCHANGED run
    /\ UNCHANGED uploads
    /\ UNCHANGED ghost

NextMerge == MergeInPlace

SpecMerge == InitMerge /\ [][NextMerge]_vars


\* ------------------------------------------------------------ claims
Terminal == {"Succeeded", "Failed"}

\* a URL text that is empty or whitespace only
IsBlank(u) == \A i \in DOMAIN u : u[i] = " "

\* C1: in every reachable state the error message is set exactly in phase
\* Failed and the result exactly in phase Succeeded; the two are never set
\* together.
C1_ErrorAndResultFollowPhase ==
    /\ error # None <=> Phase = "Failed"
    /\ result # None <=> Phase = "Succeeded"
    /\ ~(error # None /\ result # None)

\* a published result: phase Succeeded, the error message unset
C1_Witness ==
    /\ Phase = "Succeeded"
    /\ result # None
    /\ error = None
    /\ progress = 100

\* C2: a start from Idle with a URL that is not blank leaves the start step in
\* phase Running, the primary call issued and not yet answered.
C2_StartEntersRunningInTheStep ==
    [][(analyzeUrl /\ Phase = "Idle" /\ ~IsBlank(url))
          => (Phase' = "Running" /\ runPc' = "fetch")]_vars

C2_Witness ==
    /\ Phase = "Running"
    /\ runPc = "fetch"
    /\ stepIndex = 0
    /\ progress = 0
    /\ ~IsBlank(url)

\* C3: a start with an empty or whitespace-only URL goes straight to Failed
\* with the validation message: the step does not enter Running, issues no
\* primary call and sets no interval.
C3_BlankUrlFailsWithoutCall ==
    [][(analyzeUrl /\ IsBlank(url))
          => /\ Phase' = "Failed"
             /\ error' = Some(ValidationMsg)
             /\ ~isAnalyzing'
             /\ runPc' = "none"
             /\ ~intervalActive']_vars

C3_Witness ==
    /\ url = <<" ">>
    /\ Phase = "Failed"
    /\ error = Some(ValidationMsg)
    /\ runPc = "none"

\* C4: no tick of the interval fires outside phase Running, and the interval
\* is never set in a state whose phase is Succeeded or Failed, so no tick
\* changes the progress of a finished run.
C4_NoTickAfterTerminal ==
    [][/\ ProgressTick => Phase = "Running"
       /\ Phase' \in Terminal => ~intervalActive']_vars

\* a run that failed after three ticks had been shown
C4_Witness ==
    /\ Phase = "Failed"
    /\ progress = 40
    /\ ~intervalActive

\* C5: progress is 100 only after the forced update of a successfully
\* answered primary call: during the display delay or in phase Succeeded.
C5_HundredOnlyByForcedUpdate ==
    progress = 100 => (runPc = "delay" \/ Phase = "Succeeded")

\* the forced update applied, the result not yet published
C5_Witness ==
    /\ progress = 100
    /\ runPc = "delay"
    /\ progressText = DoneLabel


\* C6: when the call of a tracked traffic-log file resolves while the phase is
\* Succeeded, the published record shows that file's analysis from then on.
C6_LateFileResultIsPublished ==
    [][\A t \in uploads :
          (HarDone(t, TRUE) /\ Phase = "Succeeded" /\ t.cur \in Tracked)
              => har' = Some(Analysis(t.cur))]_vars

\* C7: when the primary call has resolved and its payload is merged, the file
\* analysis held at that moment is the one the record to be published shows.
C7_HeldAnalysisIsMerged ==
    [][(PrimaryParsed /\ harAnalysis # None)
          => harOf(Val(pendingData')) = harAnalysis]_vars

\* C8: the published record does not depend on when the file calls complete
\* relative to the primary call.  With every file call completed before the
\* start, the record carries the analysis held at the end; so must every
\* other order: once Succeeded with no call pending, no file removed and the
\* analyses involved those of tracked files, the record shows the held analysis.
C8_ResultIndependentOfOrder ==
    (/\ Phase = "Succeeded"
     /\ uploads = {}
     /\ removedAnalysed = {}
     /\ harAnalysis # None
     /\ Val(harAnalysis) \in Tracked
     /\ Val(result).har_analysis # None => Val(Val(result).har_analysis) \in Tracked)
        => har = harAnalysis

\* C9: the analysis of a file removed while its call was pending is not stored
\* when the call resolves.
C9_RemovedFileResultIsDropped ==
    [][\A t \in uploads :
          (HarDone(t, TRUE) /\ t.cur \in removedPending)
              => harAnalysis' # Some(Analysis(t.cur))]_vars

\* C10: removing a traffic-log file whose analysis is held clears the held
\* analysis, and no published record carries the analysis of a file that was
\* removed, with its analysis held, while the run that produced the record was
\* in flight.  (The code holds one analysis at a time, so the part of the
\* claim about a second contributing file has no state to be read from.)
C10_RemovedAnalysisIsDiscarded ==
    [][/\ \A i \in DOMAIN uploadedFiles :
             (removeFile(i) /\ harAnalysis = Some(Analysis(uploadedFiles[i])))
                 => harAnalysis' = None
       /\ result' # None =>
             \A f \in removedAnalysed' : Val(result').har_analysis # Some(Analysis(f))]_vars

C12_LateResultAfterResetIsDiscarded ==
    [][\A t \in uploads :
          (HarDone(t, TRUE) /\ t.cur \in resetPending)
            => harAnalysis' = harAnalysis]_vars

\* C13: when the primary call rejects, answers with a non-success status or
\* cannot be parsed, the page is Failed with a non-empty error, no result, the
\* interval cleared and no data left to publish.
C13_PrimaryFailureEndsInFailed ==
    [][(PrimaryRejected \/ PrimaryHttpError \/ PrimaryParseFailed)
         => /\ Phase = "Running"
            /\ Phase' = "Failed"
            /\ error' # None
            /\ Val(error') # ""
            /\ result' = None
            /\ ~intervalActive'
            /\ pendingData' = None]_vars

\* a run whose rejection carried no message has failed with the fallback text
C13_Witness ==
    /\ Phase = "Failed"
    /\ error = Some(FallbackMsg)
    /\ result = None
    /\ ~intervalActive
    /\ progress > 0

C15_ProgressNeverDecreasesInARun ==
    [][(~analyzeUrl /\ ~resetAnalysis) => progress' >= progress]_vars

\* a run whose interval has walked through every checkpoint
C15_Witness ==
    /\ Phase = "Running"
    /\ progress = 95
    /\ stepIndex = Len(progressSteps)
    /\ intervalActive

\* C16 as stated: only a step into Running takes progress from a non-zero
\* value to 0.
C16_OnlyStartZeroesProgress ==
    [][(progress # 0 /\ progress' = 0)
         => (Phase # "Running" /\ Phase' = "Running")]_vars

\* C16 amended: only a step into Running or resetAnalysis takes progress from
\* a non-zero value to 0.
C16_OnlyStartOrResetZeroesProgress ==
    [][(progress # 0 /\ progress' = 0)
         => ((Phase # "Running" /\ Phase' = "Running") \/ resetAnalysis)]_vars

\* a run started after an earlier run failed at its third checkpoint: the
\* label of that checkpoint is still shown, progress is back at 0
C16_Witness ==
    /\ Phase = "Running"
    /\ progress = 0
    /\ runPc = "fetch"
    /\ stepIndex = 0
    /\ progressText = "step3"

\* C17: on the success path the interval is cleared when the response arrives,
\* parsing forces progress to 100 with the terminal label while the result is
\* still unset, the timeout publishes the result and ends the run, and a result
\* is never set while progress is below 100.
C17_SuccessPathOrder ==
    [][/\ PrimaryOk => (~intervalActive' /\ result' = None /\ Phase' = "Running")
       /\ PrimaryParsed
            => /\ ~intervalActive
               /\ progress' = 100
               /\ progressText' = DoneLabel
               /\ result' = None
               /\ Phase' = "Running"
       /\ Publish
            => /\ ~intervalActive
               /\ progress = 100
               /\ result = None
               /\ result' # None
               /\ Phase' = "Succeeded"
       /\ result' # None => progress' = 100]_vars

\* a published result under the terminal label
C17_Witness ==
    /\ Phase = "Succeeded"
    /\ result # None
    /\ progress = 100
    /\ progressText = DoneLabel
    /\ ~intervalActive

\* C18: a start with a non-blank URL leads from Idle, Failed and Succeeded
\* alike to Running with progress 0, no result, no error, a fresh interval
\* and the primary call issued.
C18_RestartBehavesLikeStart ==
    [][(analyzeUrl /\ ~IsBlank(url) /\ Phase \in {"Idle"} \cup Terminal)
         => /\ Phase' = "Running"
            /\ progress' = 0
            /\ result' = None
            /\ error' = None
            /\ intervalActive'
            /\ stepIndex' = 0
            /\ runPc' = "fetch"
            /\ reqUrl' # None]_vars

\* a run started from Failed: the failed run's last label is still shown and
\* its error and progress are gone
C18_Witness ==
    /\ Phase = "Running"
    /\ runPc = "fetch"
    /\ progress = 0
    /\ error = None
    /\ result = None
    /\ intervalActive
    /\ progressText = "step2"

\* C19: a listed file is shown as analysed only if its own call is over.
C19_ShownAnalysedOnlyAfterOwnCall ==
    \A i \in DOMAIN uploadedFiles :
        ShownAnalysed(i) => uploadedFiles[i] \notin InFlight

\* C20: the merge statement leaves the record it was given as it was, and
\* running it a second time with the same analysis changes nothing.
C20_MergeIdempotentAndPure ==
    /\ mergeRun.pc \in {"once", "twice"} => mergeRun.data = mergeRun.given
    /\ mergeRun.pc = "twice" => mergeRun.data = mergeRun.once

\* C21: a published result carries a file analysis only if a har file was
\* accepted since the page was constructed or last reset; with none accepted,
\* the published record is the primary record alone.
C21_NoFileNoFileAnalysis ==
    (result # None /\ ~sessionHar) => Val(result).har_analysis = None

\* the files of fs that end in .har or whose type starts with image/
C22_Kept(fs) ==
    SelectSeq(fs, LAMBDA f : \/ EndsWith(FilePool[f].name, <<".", "h", "a", "r">>)
                             \/ StartsWith(FilePool[f].type, <<"i", "m", "a", "g", "e", "/">>))

\* C22: a handleFileUpload that changes the list appends to it, in their
\* input order, exactly the input files that are har files or images; the
\* entries already listed stay in place. (The inputs are the file lists that
\* can be picked in the state the step starts from.)
C22_AcceptAppendsValidFiles ==
    [][uploadedFiles' # uploadedFiles
         => \A fs \in Picks(FileIds \ (Tracked \cup InFlight)) :
               handleFileUpload(fs) => uploadedFiles' = uploadedFiles \o C22_Kept(fs)]_vars

\* an image listed first and a har file appended behind it, its call pending
C22_Witness ==
    /\ uploadedFiles = <<3, 1>>
    /\ Pending = {1}

\* C23: no accepted har file waits for the call of another file: every har
\* file whose analysis is outstanding has its call issued.
C23_CallsIssuedIndependently ==
    \A t \in uploads : t.rest = <<>>

\* C24 as stated: in Running a start is possible.
C24_StartEnabledWhileRunning ==
    Phase = "Running" => ENABLED analyzeUrl

\* C24 amended: in Running no start is possible.
C24_NoStartWhileRunning ==
    Phase = "Running" => ~ENABLED analyzeUrl

\* a run in flight with a URL in the field that a start would accept
C24_Witness ==
    /\ Phase = "Running"
    /\ ~IsBlank(url)
    /\ runPc = "fetch"
    /\ intervalActive
    /\ progress = 10

\* the checkpoints in their order
C25_Checkpoints == <<10, 25, 40, 55, 70, 85, 95>>

\* C25: a tick happens only in Running; it moves progress to the next
\* checkpoint, changes nothing but progress and label, and changes nothing
\* once the last checkpoint is reached.
C25_TickAdvancesOneCheckpoint ==
    [][ProgressTick
         => /\ Phase = "Running"
            /\ Phase' = "Running"
            /\ UNCHANGED <<url, isAnalyzing, result, error, uploadedFiles, harAnalysis>>
            /\ IF stepIndex < Len(C25_Checkpoints)
               THEN /\ progress' = C25_Checkpoints[stepIndex + 1]
                    /\ stepIndex' = stepIndex + 1
                    /\ stepIndex = 0 => progress = 0
                    /\ stepIndex > 0 => progress = C25_Checkpoints[stepIndex]
               ELSE UNCHANGED <<progress, progressText, stepIndex>>]_vars

\* a run whose interval has fired four times
C25_Witness ==
    /\ Phase = "Running"
    /\ stepIndex = 4
    /\ progress = 55
    /\ progressText = "step4"

\* C26: accepting files and the start or end of a per-file call leave phase,
\* progress, label and error as they were.
C26_FileStepsLeaveWorkflowState ==
    [][(Accept \/ HarResolved \/ HarFailed)
         => /\ Phase' = Phase
            /\ progress' = progress
            /\ progressText' = progressText
            /\ error' = error]_vars

\* C27: a run in flight eventually ends in Succeeded or Failed, and outside a
\* run no interval is set.
C27_RunTerminates ==
    /\ (Phase = "Running") ~> (Phase \in Terminal)
    /\ [](Phase # "Running" => (~intervalActive /\ runPc = "none"))

\* a run has ended in Succeeded with nothing of it left armed
C27_Witness ==
    /\ Phase = "Succeeded"
    /\ runPc = "none"
    /\ ~intervalActive
    /\ pendingData = None
    /\ reqUrl = None

====
